---------------------------- MODULE Spec2Model ----------------------------
(***************************************************************************)
(* telaugesa: the optimizer update-rule composition of optimize.py (sgd,   *)
(* adagrad, adadelta, the two momentum wrappers, the gd_updates            *)
(* dispatcher), the execution of an update map step after step, and the    *)
(* AutoEncoder container of model.py.                                      *)
(*                                                                         *)
(* An update map is a Python OrderedDict from shared variables to symbolic *)
(* expressions.  It is modelled as a sequence of <<key, expression>> pairs *)
(* living in a heap of map objects, so that "mutated in place" and "copied *)
(* first" are different things.  Expressions are trees; a training step    *)
(* evaluates every expression of the map against the values the shared     *)
(* variables had before the step and then assigns them all at once.        *)
(*                                                                         *)
(* Tensor values are scalars in float32 arithmetic restricted to the       *)
(* integer-valued floats: every arithmetic result is rounded to a 24 bit   *)
(* significand (round to nearest, ties to even).  Quotients and square     *)
(* roots are truncated to that grid.                                       *)
(***************************************************************************)
EXTENDS Integers, Sequences, FiniteSets, TLC

\* ------------------------------------------------------------------ bounds
MaxParamsLen == 2     \* longest params list handed to a rule
MaxSteps == 2         \* training steps per run
MaxLayers == 2        \* longest layer list handed to AutoEncoder

\* significand width of the parameters' dtype (float32)
MantissaBits == 24

\* Python's None, and a present optional value
None == <<>>
Some(x) == <<x>>

ParamIds == {1, 2}              \* the distinct trainable parameters
LrVals == {2}                   \* learning_rate arguments
MomVals == {0, 2}               \* momentum arguments (besides None)
EpsVals == {1}                  \* eps arguments
RhoVals == {0}                  \* rho arguments
VelProbe == {-5, 0, 7}          \* velocity values probed by value comparisons

\* ------------------------------------------------------- float32 arithmetic
RECURSIVE Pow2(_)
Pow2(n) == IF n = 0 THEN 1 ELSE 2 * Pow2(n - 1)

\* integers below this are exactly representable
Exact == Pow2(MantissaBits)

\* spacing of the floats around a >= 0
RECURSIVE Ulp(_)
Ulp(a) == IF a < Exact THEN 1 ELSE 2 * Ulp(a \div 2)

RoundAbs(a) ==
    LET u == Ulp(a)
        q == a \div u
        r == a % u
    IN  IF 2 * r < u THEN q * u
        ELSE IF 2 * r > u THEN (q + 1) * u
        ELSE IF q % 2 = 0 THEN q * u ELSE (q + 1) * u

RoundSigned(v) == IF v < 0 THEN 0 - RoundAbs(0 - v) ELSE RoundAbs(v)

\* the one element of a singleton set
Only(S) == CHOOSE x \in S : TRUE

\* n rounded to the nearest float (n is evaluated once)
Fl(n) == Only({RoundSigned(v) : v \in {n}})

FAdd(a, b) == Fl(a + b)
FSub(a, b) == Fl(a - b)
FMul(a, b) == Fl(a * b)

\* quotient truncated toward zero
TruncDiv(a, b) ==
    LET s == IF (a < 0) = (b < 0) THEN 1 ELSE 0 - 1
        aa == IF a < 0 THEN 0 - a ELSE a
        bb == IF b < 0 THEN 0 - b ELSE b
    IN  s * (aa \div bb)

FDiv(a, b) == Fl(Only({TruncDiv(x, y) : x \in {a}, y \in {b}}))

\* square root truncated: the r with r*r <= n < (r+1)*(r+1), by bisection
RECURSIVE SqrtIn(_, _, _)
SqrtIn(n, lo, hi) ==
    IF hi - lo <= 1 THEN lo
    ELSE LET mid == (lo + hi) \div 2
         IN  IF mid * mid <= n THEN SqrtIn(n, mid, hi) ELSE SqrtIn(n, lo, mid)

FSqrt(a) == Only({SqrtIn(v, 0, Pow2(15)) : v \in {a}})

\* ---------------------------------------------------------- shared variables
\* A shared variable is <<kind, id>>; kind records who created it.
Param(i) == <<"param", i>>
ParamKeys == {Param(i) : i \in ParamIds}
OtherKey == <<"other", 0>>

NewSharedReused(store, kind) == <<kind, 0>>

\* theano.shared(np.zeros(...)): a fresh variable, value zero
NewShared(store, kind) == <<kind, Cardinality(DOMAIN store) + 1>>
WithShared(store, k) == store @@ (k :> 0)

\* ----------------------------------------------------------------- expressions
Const(c) == <<"const", c>>
Var(k) == <<"var", k>>
Grad(k) == <<"grad", k>>
Add(a, b) == <<"add", a, b>>
Sub(a, b) == <<"sub", a, b>>
Mul(a, b) == <<"mul", a, b>>
Div(a, b) == <<"div", a, b>>
Sqr(a) == <<"sqr", a>>
Sqrt(a) == <<"sqrt", a>>

\* the value of expression e given the shared variables' values and the
\* gradients g
RECURSIVE Eval(_, _, _)
Eval(e, store, g) ==
    CASE e[1] = "const" -> e[2]
      [] e[1] = "var" -> store[e[2]]
      [] e[1] = "grad" -> g[e[2]]
      [] e[1] = "add" -> FAdd(Eval(e[2], store, g), Eval(e[3], store, g))
      [] e[1] = "sub" -> FSub(Eval(e[2], store, g), Eval(e[3], store, g))
      [] e[1] = "mul" -> FMul(Eval(e[2], store, g), Eval(e[3], store, g))
      [] e[1] = "div" -> FDiv(Eval(e[2], store, g), Eval(e[3], store, g))
      [] e[1] = "sqr" -> Only({FMul(v, v) : v \in {Eval(e[2], store, g)}})
      [] e[1] = "sqrt" -> FSqrt(Eval(e[2], store, g))

\* ------------------------------------------------------------- OrderedDict
DictKeys(d) == {d[i][1] : i \in 1..Len(d)}
DictHas(d, k) == \E i \in 1..Len(d) : d[i][1] = k
DictGet(d, k) == d[CHOOSE i \in 1..Len(d) : d[i][1] = k][2]

\* d[k] = e: overwrite in place when k is present, append otherwise
DictSet(d, k, e) ==
    IF DictHas(d, k)
    THEN [i \in 1..Len(d) |-> IF d[i][1] = k THEN <<k, e>> ELSE d[i]]
    ELSE Append(d, <<k, e>>)

\* ------------------------------------------------------------------- heap
\* The machine a library call runs on: M.heap is the sequence of OrderedDict
\* objects (a reference is an index), M.store the shared variables' values.
\* A call returns [M, ret, err]: the machine after it, the returned reference
\* (None when it raised) and "ok" or the exception raised.
Alloc(M, d) == [M EXCEPT !.heap = Append(@, d)]

OrderedDictAlias(M, ref) == [M |-> M, ref |-> ref]

\* OrderedDict(updates): a new object holding the entries of heap[ref]
OrderedDictCopy(M, ref) ==
    [M |-> Alloc(M, M.heap[ref]), ref |-> Len(M.heap) + 1]

\* if updates is None: updates = OrderedDict()
OrNewDict(M, updates) ==
    IF updates = None
    THEN [M |-> Alloc(M, <<>>), ref |-> Len(M.heap) + 1]
    ELSE [M |-> M, ref |-> updates[1]]

\* ------------------------------------------------------------------- sgd
SgdExprNoLr(p, lr) == Sub(Var(p), Grad(p))

SgdExpr(p, lr) == Sub(Var(p), Mul(Const(lr), Grad(p)))

RECURSIVE SgdLoop(_, _, _, _)
SgdLoop(d, params, lr, i) ==
    IF i > Len(params) THEN d
    ELSE SgdLoop(DictSet(d, params[i], SgdExpr(params[i], lr)), params, lr, i + 1)

sgd(M, params, updates, lr) ==
    LET a == OrNewDict(M, updates)
    IN  [M |-> [a.M EXCEPT !.heap[a.ref] = SgdLoop(@, params, lr, 1)],
         ret |-> Some(a.ref), err |-> "ok"]

\* -------------------------------------------------------- apply_momentum
MomentumBodyNoDelta(d, p, vel, m) ==
    LET x == Add(Mul(Const(m), Var(vel)), DictGet(d, p))
    IN  DictSet(DictSet(d, vel, x), p, x)

MomentumBodyNoCoef(d, p, vel, m) ==
    LET x == Add(Var(vel), DictGet(d, p))
    IN  DictSet(DictSet(d, vel, Sub(x, Var(p))), p, x)

\* lines 72-74: one parameter of the loop, momentum and entry present
MomentumBody(d, p, vel, m) ==
    LET x == Add(Mul(Const(m), Var(vel)), DictGet(d, p))
    IN  DictSet(DictSet(d, vel, Sub(x, Var(p))), p, x)

RECURSIVE MomentumLoop(_, _, _, _, _)
MomentumLoop(M, ref, params, momentum, i) ==
    IF i > Len(params) THEN [M |-> M, err |-> "ok"]
    ELSE LET p == params[i]
             vel == NewShared(M.store, "velocity")
             M1 == [M EXCEPT !.store = WithShared(@, vel)]
         IN  IF momentum = None THEN [M |-> M1, err |-> "TypeError"]
             ELSE IF ~DictHas(M1.heap[ref], p) THEN [M |-> M1, err |-> "KeyError"]
             ELSE MomentumLoop(
                      [M1 EXCEPT !.heap[ref] = MomentumBody(@, p, vel, momentum[1])],
                      ref, params, momentum, i + 1)

apply_momentum(M, updates, params, momentum) ==
    IF updates = None THEN [M |-> M, ret |-> None, err |-> "TypeError"]
    ELSE LET c == OrderedDictCopy(M, updates[1])
             r == MomentumLoop(c.M, c.ref, params, momentum, 1)
         IN  [M |-> r.M, ret |-> IF r.err = "ok" THEN Some(c.ref) ELSE None,
              err |-> r.err]

\* ------------------------------------------------ apply_nestrov_momentum
NestrovBodyReread(d, p, vel, m) ==
    LET x == Sub(Add(Mul(Const(m), Var(vel)), DictGet(d, p)), Var(p))
        d1 == DictSet(d, p, x)
    IN  DictSet(DictSet(d1, vel, x), p, Add(Mul(Const(m), x), DictGet(d1, p)))

\* lines 104-106: the second read of updates[param] happens after
\* updates[velocity] was written and before updates[param] is
NestrovBody(d, p, vel, m) ==
    LET x == Sub(Add(Mul(Const(m), Var(vel)), DictGet(d, p)), Var(p))
        d1 == DictSet(d, vel, x)
    IN  DictSet(d1, p, Add(Mul(Const(m), x), DictGet(d1, p)))

RECURSIVE NestrovLoop(_, _, _, _, _)
NestrovLoop(M, ref, params, momentum, i) ==
    IF i > Len(params) THEN [M |-> M, err |-> "ok"]
    ELSE LET p == params[i]
             vel == NewShared(M.store, "velocity")
             M1 == [M EXCEPT !.store = WithShared(@, vel)]
         IN  IF momentum = None THEN [M |-> M1, err |-> "TypeError"]
             ELSE IF ~DictHas(M1.heap[ref], p) THEN [M |-> M1, err |-> "KeyError"]
             ELSE NestrovLoop(
                      [M1 EXCEPT !.heap[ref] = NestrovBody(@, p, vel, momentum[1])],
                      ref, params, momentum, i + 1)

apply_nestrov_momentum(M, updates, params, momentum) ==
    IF updates = None THEN [M |-> M, ret |-> None, err |-> "TypeError"]
    ELSE LET c == OrderedDictCopy(M, updates[1])
             r == NestrovLoop(c.M, c.ref, params, momentum, 1)
         IN  [M |-> r.M, ret |-> IF r.err = "ok" THEN Some(c.ref) ELSE None,
              err |-> r.err]

\* ---------------------------------------------------------------- adagrad
AdagradAccuReset(accu, p) == Sqr(Grad(p))

\* line 144: accu_new = accu + gparam**2
AdagradAccu(accu, p) == Add(Var(accu), Sqr(Grad(p)))

\* lines 140-146: one parameter of the loop
AdagradBody(M, ref, p, lr, eps) ==
    LET accu == NewShared(M.store, "accu")
        accu_new == AdagradAccu(accu, p)
        d1 == DictSet(M.heap[ref], accu, accu_new)
        d2 == DictSet(d1, p,
                  Sub(Var(p), Div(Mul(Const(lr), Grad(p)),
                                  Sqrt(Add(accu_new, Const(eps))))))
    IN  [heap |-> [M.heap EXCEPT ![ref] = d2], store |-> WithShared(M.store, accu)]

RECURSIVE AdagradLoop(_, _, _, _, _, _)
AdagradLoop(M, ref, params, lr, eps, i) ==
    IF i > Len(params) THEN M
    ELSE AdagradLoop(AdagradBody(M, ref, params[i], lr, eps), ref, params, lr, eps, i + 1)

adagrad(M, params, updates, lr, eps) ==
    LET a == OrNewDict(M, updates)
    IN  [M |-> AdagradLoop(a.M, a.ref, params, lr, eps, 1), ret |-> Some(a.ref),
         err |-> "ok"]

\* --------------------------------------------------------------- adadelta
\* lines 183-197: one parameter of the loop
AdadeltaBody(M, ref, p, lr, eps, rho) ==
    LET accu == NewShared(M.store, "accu")
        s1 == WithShared(M.store, accu)
        delta_accu == NewShared(s1, "delta_accu")
        s2 == WithShared(s1, delta_accu)
        accu_new == Add(Mul(Const(rho), Var(accu)),
                        Mul(Const(1 - rho), Sqr(Grad(p))))
        d1 == DictSet(M.heap[ref], accu, accu_new)
        update == Div(Mul(Grad(p), Sqrt(Add(Var(delta_accu), Const(eps)))),
                      Sqrt(Add(accu_new, Const(eps))))
        d2 == DictSet(d1, p, Sub(Var(p), Mul(Const(lr), update)))
        delta_accu_new == Add(Mul(Const(rho), Var(delta_accu)),
                              Mul(Const(1 - rho), Sqr(update)))
        d3 == DictSet(d2, delta_accu, delta_accu_new)
    IN  [heap |-> [M.heap EXCEPT ![ref] = d3], store |-> s2]

RECURSIVE AdadeltaLoop(_, _, _, _, _, _, _)
AdadeltaLoop(M, ref, params, lr, eps, rho, i) ==
    IF i > Len(params) THEN M
    ELSE AdadeltaLoop(AdadeltaBody(M, ref, params[i], lr, eps, rho),
                      ref, params, lr, eps, rho, i + 1)

adadelta(M, params, updates, lr, eps, rho) ==
    LET a == OrNewDict(M, updates)
    IN  [M |-> AdadeltaLoop(a.M, a.ref, params, lr, eps, rho, 1),
         ret |-> Some(a.ref), err |-> "ok"]

\* ------------------------------------------------------------- gd_updates
Methods == {"sgd", "adagrad", "adadelta", "rmsprop"}

\* lines 237-241, on the map sgd returned
Layer(s, params, momentum, nesterov) ==
    IF momentum # None
    THEN IF nesterov
         THEN apply_nestrov_momentum(s.M, s.ret, params, momentum)
         ELSE apply_momentum(s.M, s.ret, params, momentum)
    ELSE s

gd_updates_momentum_everywhere(M, params, updates, momentum, nesterov, lr, eps, rho, method) ==
    IF method = "adagrad"
    THEN Layer(adagrad(M, params, updates, lr, eps), params, momentum, nesterov)
    ELSE IF method = "adadelta"
    THEN Layer(adadelta(M, params, updates, lr, eps, rho), params, momentum, nesterov)
    ELSE IF method = "sgd"
    THEN Layer(sgd(M, params, updates, lr), params, momentum, nesterov)
    ELSE [M |-> M, ret |-> updates, err |-> "ok"]

gd_updates_unknown_is_sgd(M, params, updates, momentum, nesterov, lr, eps, rho, method) ==
    IF method = "adagrad" THEN adagrad(M, params, updates, lr, eps)
    ELSE IF method = "adadelta" THEN adadelta(M, params, updates, lr, eps, rho)
    ELSE Layer(sgd(M, params, updates, lr), params, momentum, nesterov)

gd_updates(M, params, updates, momentum, nesterov, lr, eps, rho, method) ==
    IF method = "adagrad" THEN adagrad(M, params, updates, lr, eps)
    ELSE IF method = "adadelta" THEN adadelta(M, params, updates, lr, eps, rho)
    ELSE IF method = "sgd"
    THEN Layer(sgd(M, params, updates, lr), params, momentum, nesterov)
    ELSE [M |-> M, ret |-> updates, err |-> "ok"]

\* ------------------------------------------------------------ AutoEncoder
Dims == {1, 2}

\* A layer: its in_dim and out_dim attributes (None when the class has none,
\* as the convolutional layers) and whether it has a params attribute.
LayerSet ==
    [in_dim : {Some(n) : n \in Dims}, out_dim : {Some(n) : n \in Dims},
     has_params : BOOLEAN]
    \cup {[in_dim |-> None, out_dim |-> None, has_params |-> TRUE]}

LayerLists == UNION {[1..n -> LayerSet] : n \in 0..MaxLayers}

checkParamsOnly(layers) ==
    IF layers = <<>> THEN "IndexError"
    ELSE IF layers[1].in_dim = None \/ layers[Len(layers)].out_dim = None
    THEN "AttributeError"
    ELSE IF \E i \in 1..Len(layers) : ~layers[i].has_params
    THEN "AssertionError"
    ELSE "ok"

\* AutoEncoder.check: "ok", or the exception it raises
check(layers) ==
    IF layers = <<>> THEN "IndexError"
    ELSE IF layers[1].in_dim = None \/ layers[Len(layers)].out_dim = None
    THEN "AttributeError"
    ELSE IF layers[1].in_dim # layers[Len(layers)].out_dim THEN "AssertionError"
    ELSE IF \E i \in 1..Len(layers) : ~layers[i].has_params
    THEN "AssertionError"
    ELSE "ok"

RECURSIVE Pow(_, _)
Pow(b, n) == IF n = 0 THEN 1 ELSE b * Pow(b, n - 1)

\* ------------------------------------------------------------------ state
VARIABLES
    pc,        \* "start" before the library call of the run, "called" after
    heap,      \* the OrderedDict objects
    store,     \* value of every shared variable
    call,      \* the call made: function, arguments, heap and store before it
    result,    \* what the call returned: [ret, err]
    prev,      \* the store before the last training step
    grads,     \* the gradients of the last training step
    nsteps,    \* training steps taken
    ae         \* the AutoEncoder of the run

vars == <<pc, heap, store, call, result, prev, grads, nsteps, ae>>

Machine == [heap |-> heap, store |-> store]

ParamLists == UNION {[1..n -> ParamKeys] : n \in 0..MaxParamsLen}

RECURSIVE AllParams(_)
AllParams(S) ==
    IF S = {} THEN <<>>
    ELSE LET i == CHOOSE j \in S : \A k \in S : j <= k
         IN  <<Param(i)>> \o AllParams(S \ {i})

\* The map the caller holds before the call: empty, holding an entry for some
\* other shared variable, holding a pending update for the first parameter
\* only, or already populated by a base rule for every parameter.
InitMaps ==
    { <<>>,
      << <<OtherKey, Const(7)>> >>,
      << <<Param(1), Const(7)>> >>,
      SgdLoop(<< <<OtherKey, Const(7)>> >>, AllParams(ParamIds), 2, 1) }

InitStore == [k \in ParamKeys \cup {OtherKey} |-> IF k = OtherKey THEN 0 ELSE 3 * k[2]]

NoCall ==
    [op |-> "none", params |-> <<>>, updates |-> None, momentum |-> None,
     nesterov |-> FALSE, lr |-> 0, eps |-> 0, rho |-> 0, method |-> "none",
     heap |-> <<>>, store |-> InitStore]

NoAE == [status |-> "none", layers |-> <<>>, err |-> "ok", fprops |-> 0,
         corruption_level |-> 0, out |-> <<>>]

Init ==
    /\ pc = "start"
    /\ \E d \in InitMaps : heap = <<d>>
    /\ store = InitStore
    /\ call = NoCall
    /\ result = [ret |-> None, err |-> "none"]
    /\ prev = InitStore
    /\ grads = [k \in ParamKeys |-> 0]
    /\ nsteps = 0
    /\ ae = NoAE

UpdatesArgs == {None, Some(1)}

Args(op, params, updates, momentum, nesterov, lr, eps, rho, method) ==
    [op |-> op, params |-> params, updates |-> updates, momentum |-> momentum,
     nesterov |-> nesterov, lr |-> lr, eps |-> eps, rho |-> rho,
     method |-> method, heap |-> heap, store |-> store]

Return(r, args) ==
    /\ pc' = "called"
    /\ heap' = r.M.heap
    /\ store' = r.M.store
    /\ result' = [ret |-> r.ret, err |-> r.err]
    /\ call' = args
    /\ UNCHANGED <<prev, grads, nsteps, ae>>

CallSgd ==
    /\ pc = "start"
    /\ \E params \in ParamLists, updates \in UpdatesArgs, lr \in LrVals :
           Return(sgd(Machine, params, updates, lr),
                  Args("sgd", params, updates, None, FALSE, lr, 0, 0, "none"))

CallAdagrad ==
    /\ pc = "start"
    /\ \E params \in ParamLists, updates \in UpdatesArgs, lr \in LrVals, eps \in EpsVals :
           Return(adagrad(Machine, params, updates, lr, eps),
                  Args("adagrad", params, updates, None, FALSE, lr, eps, 0, "none"))

CallAdadelta ==
    /\ pc = "start"
    /\ \E params \in ParamLists, updates \in UpdatesArgs, lr \in LrVals,
          eps \in EpsVals, rho \in RhoVals :
           Return(adadelta(Machine, params, updates, lr, eps, rho),
                  Args("adadelta", params, updates, None, FALSE, lr, eps, rho, "none"))

MomArgs == {None} \cup {Some(m) : m \in MomVals}

CallApplyMomentum ==
    /\ pc = "start"
    /\ \E params \in ParamLists, updates \in UpdatesArgs, momentum \in MomArgs :
           Return(apply_momentum(Machine, updates, params, momentum),
                  Args("apply_momentum", params, updates, momentum, FALSE, 0, 0, 0,
                       "none"))

CallApplyNestrovMomentum ==
    /\ pc = "start"
    /\ \E params \in ParamLists, updates \in UpdatesArgs, momentum \in MomArgs :
           Return(apply_nestrov_momentum(Machine, updates, params, momentum),
                  Args("apply_nestrov_momentum", params, updates, momentum, FALSE, 0,
                       0, 0, "none"))

CallGdUpdates ==
    /\ pc = "start"
    /\ \E params \in ParamLists, updates \in UpdatesArgs, momentum \in MomArgs,
          nesterov \in BOOLEAN, lr \in LrVals, eps \in EpsVals, rho \in RhoVals,
          method \in Methods :
           Return(gd_updates(Machine, params, updates, momentum, nesterov, lr, eps,
                             rho, method),
                  Args("gd_updates", params, updates, momentum, nesterov, lr, eps, rho,
                       method))

\* The gradients one training step can see.
GradVecs ==
    { [k \in ParamKeys |-> 0],
      [k \in ParamKeys |-> IF k = Param(1) THEN 4096 ELSE 0 - 1],
      [k \in ParamKeys |-> IF k = Param(1) THEN 1 ELSE 4096] }

\* the store after one execution of the update map d with gradients g
Apply(d, s, g) ==
    [k \in DOMAIN s |-> IF DictHas(d, k) THEN Eval(DictGet(d, k), s, g) ELSE s[k]]

\* One training step with the map the call returned: every expression is
\* evaluated on the values before the step, then all are assigned.
Step ==
    /\ pc = "called"
    /\ result.err = "ok"
    /\ result.ret # None
    /\ nsteps < MaxSteps
    /\ \E g \in GradVecs :
        /\ store' = Apply(heap[result.ret[1]], store, g)
        /\ grads' = g
    /\ prev' = store
    /\ nsteps' = nsteps + 1
    /\ UNCHANGED <<pc, heap, call, result, ae>>

Next ==
    \/ CallSgd
    \/ CallAdagrad
    \/ CallAdadelta
    \/ CallApplyMomentum
    \/ CallApplyNestrovMomentum
    \/ CallGdUpdates
    \/ Step

Spec == Init /\ [][Next]_vars

\* AutoEncoder(layers): __init__ stores the layers and runs check
Construct ==
    /\ ae.status = "none"
    /\ \E layers \in LayerLists :
        LET e == check(layers)
        IN  ae' = [ae EXCEPT !.status = IF e = "ok" THEN "constructed" ELSE "failed",
                             !.layers = layers, !.err = e]
    /\ UNCHANGED <<pc, heap, store, call, result, prev, grads, nsteps>>

\* AutoEncoder.fprop on a constructed object
Fprop ==
    /\ ae.status = "constructed"
    /\ ae.fprops < MaxSteps
    /\ \E corruption_level \in {0, 1}, epoch \in {None, Some(1), Some(2)},
          decay_rate \in {0 - 1, 0} :
        LET level == IF epoch # None
                     THEN corruption_level * Pow(epoch[1], 0 - decay_rate)
                     ELSE corruption_level
        IN  ae' = [ae EXCEPT !.corruption_level = level,
                             !.fprops = @ + 1,
                             !.out = [k \in 1..Len(ae.layers) |->
                                         [layer |-> k, corrupted |-> level # 0]]]
    /\ UNCHANGED <<pc, heap, store, call, result, prev, grads, nsteps>>

NextAE == Construct \/ Fprop

SpecAE == Init /\ [][NextAE]_vars

\* ------------------------------------------------------------ properties
Range(f) == {f[i] : i \in DOMAIN f}
Distinct(f) == \A i, j \in DOMAIN f : f[i] = f[j] => i = j

Called(op) == pc = "called" /\ call.op = op
Wrapper == Called("apply_momentum") \/ Called("apply_nestrov_momentum")

\* the machine the call started on, the map it was handed as that map was
\* before the call, and the map it returned
Before == [heap |-> call.heap, store |-> call.store]
ArgMap == call.heap[call.updates[1]]
RetMap == heap[result.ret[1]]

\* the i-th shared variable the call created
Created(kind, i) == <<kind, Cardinality(DOMAIN call.store) + i>>

\* the store with every velocity set to v
Probe(v) == [k \in DOMAIN store |-> IF k[1] = "velocity" THEN v ELSE store[k]]

\* C1: a momentum wrapper called with momentum 0 returns a map whose entry
\* for each wrapped parameter evaluates to the same next value as the entry
\* of the map it was given, whatever the velocity's value is.
C1_ZeroMomentumKeepsUpdate ==
    (Wrapper /\ result.err = "ok" /\ call.momentum = Some(0)) =>
        \A p \in Range(call.params) : \A v \in VelProbe : \A g \in GradVecs :
            Eval(DictGet(RetMap, p), Probe(v), g) = Eval(DictGet(ArgMap, p), Probe(v), g)

C1_Witness ==
    /\ Called("apply_nestrov_momentum")
    /\ result.err = "ok"
    /\ call.momentum = Some(0)
    /\ Len(call.params) = 2
    /\ Distinct(call.params)
    /\ nsteps = 2

\* C2: sgd returns the map it was given (a new one for None) holding, for
\* every parameter p of params, the entry p -> p - learning_rate * grad(p);
\* its keys are the keys of the map given plus the parameters, each key once,
\* and no shared variable is created.
C2_SgdUpdate ==
    Called("sgd") =>
        /\ result.err = "ok"
        /\ call.updates # None => result.ret = call.updates
        /\ \A p \in Range(call.params) :
              /\ DictGet(RetMap, p)
                    = <<"sub", <<"var", p>>, <<"mul", <<"const", call.lr>>, <<"grad", p>>>>>>
              /\ \A g \in GradVecs :
                    Eval(DictGet(RetMap, p), store, g)
                        = FSub(store[p], FMul(call.lr, g[p]))
        /\ DictKeys(RetMap)
              = (IF call.updates = None THEN {} ELSE DictKeys(ArgMap))
                    \cup Range(call.params)
        /\ Len(RetMap) = Cardinality(DictKeys(RetMap))
        /\ DOMAIN store = DOMAIN call.store

C2_Witness ==
    /\ Called("sgd")
    /\ call.updates # None
    /\ DictHas(ArgMap, Param(1))
    /\ call.params = <<Param(2), Param(1)>>
    /\ DictGet(RetMap, Param(1)) # DictGet(ArgMap, Param(1))
    /\ nsteps = 1

\* the update map was built by one adagrad call
ByAdagrad ==
    \/ Called("adagrad")
    \/ Called("gd_updates") /\ call.method = "adagrad"

\* C3 as amended: the accumulator of each parameter starts at zero, becomes
\* accu + grad^2 at every step and never decreases; it strictly increases at
\* every step whose gradient is nonzero and whose sum accu + grad^2 is a float.
C3_AccumulatorMonotone ==
    ByAdagrad =>
        \A i \in DOMAIN call.params :
            LET accu == Created("accu", i)
                gparam == grads[call.params[i]]
            IN  /\ nsteps = 0 => store[accu] = 0
                /\ nsteps > 0 =>
                      /\ store[accu] = FAdd(prev[accu], FMul(gparam, gparam))
                      /\ store[accu] >= prev[accu]
                      /\ (gparam # 0
                            /\ Fl(prev[accu] + gparam * gparam)
                                  = prev[accu] + gparam * gparam)
                          => store[accu] > prev[accu]

\* C3 as stated: the accumulator starts at zero, becomes accu + grad^2 at
\* every step, never decreases, and strictly increases at every step whose
\* gradient is nonzero.
C3_AsStated ==
    ByAdagrad =>
        \A i \in DOMAIN call.params :
            LET accu == Created("accu", i)
                gparam == grads[call.params[i]]
            IN  /\ nsteps = 0 => store[accu] = 0
                /\ nsteps > 0 =>
                      /\ store[accu] = FAdd(prev[accu], FMul(gparam, gparam))
                      /\ store[accu] >= prev[accu]
                      /\ gparam # 0 => store[accu] > prev[accu]

C3_Witness ==
    /\ Called("adagrad")
    /\ nsteps = 2
    /\ Len(call.params) = 2
    /\ \E i \in DOMAIN call.params :
          /\ prev[Created("accu", i)] > 0
          /\ store[Created("accu", i)] > prev[Created("accu", i)]

\* the state a call's result r leaves, compared with the present one
Same(r) ==
    /\ heap = r.M.heap
    /\ DOMAIN store = DOMAIN r.M.store
    /\ result = [ret |-> r.ret, err |-> r.err]

\* C4: gd_updates layers momentum on the sgd map only: method "sgd" gives
\* apply_nestrov_momentum(sgd) when momentum is given and nesterov is True,
\* apply_momentum(sgd) when momentum is given and nesterov is not, the plain
\* sgd map when momentum is None; "adagrad" and "adadelta" give the map of
\* the rule alone and create no velocity, whatever momentum and nesterov are.
C4_MomentumOnSgdOnly ==
    Called("gd_updates") =>
        LET s == sgd(Before, call.params, call.updates, call.lr)
        IN  /\ (call.method = "sgd" /\ call.momentum # None /\ call.nesterov)
                  => Same(apply_nestrov_momentum(s.M, s.ret, call.params, call.momentum))
            /\ (call.method = "sgd" /\ call.momentum # None /\ ~call.nesterov)
                  => Same(apply_momentum(s.M, s.ret, call.params, call.momentum))
            /\ (call.method = "sgd" /\ call.momentum = None) => Same(s)
            /\ call.method = "adagrad"
                  => /\ Same(adagrad(Before, call.params, call.updates, call.lr, call.eps))
                     /\ \A k \in DOMAIN store : k[1] # "velocity"
            /\ call.method = "adadelta"
                  => /\ Same(adadelta(Before, call.params, call.updates, call.lr,
                                      call.eps, call.rho))
                     /\ \A k \in DOMAIN store : k[1] # "velocity"

C4_Witness ==
    /\ Called("gd_updates")
    /\ call.method = "adagrad"
    /\ call.momentum = Some(2)
    /\ call.nesterov
    /\ Len(call.params) = 2
    /\ nsteps = 1

\* C5: gd_updates with a method name other than "sgd", "adagrad", "adadelta"
\* raises nothing and returns its updates argument as it was passed (None for
\* None): no map is created or changed and no shared variable is created.
C5_UnknownMethodNoOp ==
    (Called("gd_updates") /\ call.method \notin {"sgd", "adagrad", "adadelta"}) =>
        /\ result = [ret |-> call.updates, err |-> "ok"]
        /\ heap = call.heap
        /\ DOMAIN store = DOMAIN call.store

C5_Witness ==
    /\ Called("gd_updates")
    /\ call.method = "rmsprop"
    /\ call.updates # None
    /\ ArgMap # <<>>
    /\ call.momentum = Some(2)
    /\ call.params # <<>>
    /\ result.ret = call.updates

\* some parameter of the list has no entry in the map handed to the wrapper
MissingEntry == \E p \in Range(call.params) : ~DictHas(ArgMap, p)

C7_CheckAtConstruction ==
    (ae.status # "none" /\ ae.layers # <<>>) =>
        LET first == ae.layers[1]
            last == ae.layers[Len(ae.layers)]
            with_dims == first.in_dim # None /\ last.out_dim # None
            all_params == \A i \in DOMAIN ae.layers : ae.layers[i].has_params
        IN  /\ (with_dims /\ first.in_dim # last.out_dim)
                  => (ae.status = "failed" /\ ae.err = "AssertionError")
            /\ ~all_params => ae.status = "failed"
            /\ (with_dims /\ first.in_dim = last.out_dim /\ all_params)
                  => ae.status = "constructed"
            /\ ae.status = "failed" => (ae.fprops = 0 /\ ae.out = <<>>)

C7_Witness ==
    /\ ae.status = "failed"
    /\ Len(ae.layers) = 2
    /\ ae.layers[1].in_dim = Some(1)
    /\ ae.layers[2].out_dim = Some(2)
    /\ \A i \in DOMAIN ae.layers : ae.layers[i].has_params

\* the update map was built by sgd followed by apply_momentum
BySgdMomentum ==
    /\ Called("gd_updates")
    /\ call.method = "sgd"
    /\ call.momentum # None
    /\ ~call.nesterov

\* C8: with the map of sgd followed by apply_momentum(m) over distinct
\* parameters, every velocity starts at zero and every step sets the
\* parameter to x = m * velocity + (param - learning_rate * grad) and the
\* velocity to x - param: the velocity is the parameter's value after the
\* step minus its value before the step.
C8_VelocityIsDelta ==
    (BySgdMomentum /\ Distinct(call.params)) =>
        \A i \in DOMAIN call.params :
            LET p == call.params[i]
                vel == Created("velocity", i)
            IN  /\ nsteps = 0 => store[vel] = 0
                /\ nsteps > 0 =>
                      /\ store[p] = FAdd(FMul(call.momentum[1], prev[vel]),
                                         FSub(prev[p], FMul(call.lr, grads[p])))
                      /\ store[vel] = FSub(store[p], prev[p])

C8_Witness ==
    /\ BySgdMomentum
    /\ call.momentum = Some(2)
    /\ call.params = <<Param(1), Param(2)>>
    /\ nsteps = 2
    /\ prev[Created("velocity", 1)] # 0
    /\ store[Created("velocity", 1)] # prev[Created("velocity", 1)]

\* C9: apply_nestrov_momentum over distinct parameters leaves, for every
\* parameter whatever its place in the list, velocity -> x and
\* param -> m * x + u with x = m * velocity + u - param, where u is the entry
\* the map given to the wrapper held for that parameter.
C9_NestrovReadsBaseUpdate ==
    (Called("apply_nestrov_momentum") /\ result.err = "ok" /\ Distinct(call.params)) =>
        \A i \in DOMAIN call.params :
            LET p == call.params[i]
                vel == Created("velocity", i)
                m == <<"const", call.momentum[1]>>
                u == DictGet(ArgMap, p)
                x == <<"sub", <<"add", <<"mul", m, <<"var", vel>>>>, u>>, <<"var", p>>>>
            IN  /\ DictGet(RetMap, vel) = x
                /\ DictGet(RetMap, p) = <<"add", <<"mul", m, x>>, u>>

C9_Witness ==
    /\ Called("apply_nestrov_momentum")
    /\ result.err = "ok"
    /\ call.momentum = Some(2)
    /\ call.params = <<Param(2), Param(1)>>
    /\ DictGet(ArgMap, Param(1)) = SgdExpr(Param(1), 2)

\* the keys the returned map has and the map handed over had not
Added == DictKeys(RetMap) \ DictKeys(ArgMap)

\* after gd_updates(method "sgd", momentum m, updates U) the caller's U holds
\* the plain sgd entries and no velocity; those are in the returned map only
SgdInPlaceMomentumInCopy ==
    (Called("gd_updates") /\ call.method = "sgd" /\ call.momentum # None
        /\ call.updates # None) =>
          /\ heap[call.updates[1]] = SgdLoop(ArgMap, call.params, call.lr, 1)
          /\ \A k \in DictKeys(heap[call.updates[1]]) : k[1] # "velocity"
          /\ result.ret # call.updates
          /\ \A i \in DOMAIN call.params : DictHas(RetMap, Created("velocity", i))

\* C10 as stated: a momentum wrapper that succeeds leaves the map it was
\* given as it was and returns another map, which keeps every key of the
\* input, keeps the value of every key that is not a wrapped parameter, and
\* gains exactly one fresh zero-valued velocity per wrapped parameter; and
\* gd_updates leaves the momentum entries in the returned map only.
C10_AsStated ==
    /\ (Wrapper /\ result.err = "ok") =>
          /\ heap[call.updates[1]] = ArgMap
          /\ result.ret # call.updates
          /\ DictKeys(ArgMap) \subseteq DictKeys(RetMap)
          /\ \A k \in DictKeys(ArgMap) \ Range(call.params) :
                DictGet(RetMap, k) = DictGet(ArgMap, k)
          /\ \A k \in Added : k[1] = "velocity"
          /\ Cardinality(Added) = Cardinality(Range(call.params))
          /\ Added \cap DOMAIN call.store = {}
          /\ nsteps = 0 => \A k \in Added : store[k] = 0
    /\ SgdInPlaceMomentumInCopy

\* C10 as amended: the same, the returned map gaining one fresh zero-valued
\* velocity per entry of the params list (a parameter listed twice is
\* wrapped twice and gets two) and nothing else.
C10_WrapperLeavesInput ==
    /\ (Wrapper /\ result.err = "ok") =>
          /\ heap[call.updates[1]] = ArgMap
          /\ result.ret # call.updates
          /\ DictKeys(ArgMap) \subseteq DictKeys(RetMap)
          /\ \A k \in DictKeys(ArgMap) \ Range(call.params) :
                DictGet(RetMap, k) = DictGet(ArgMap, k)
          /\ Added = {Created("velocity", i) : i \in DOMAIN call.params}
          /\ Cardinality(Added) = Len(call.params)
          /\ Added \cap DOMAIN call.store = {}
          /\ nsteps = 0 => \A k \in Added : store[k] = 0
    /\ SgdInPlaceMomentumInCopy

C10_Witness ==
    /\ Called("apply_momentum")
    /\ result.err = "ok"
    /\ call.momentum = Some(2)
    /\ DictHas(ArgMap, OtherKey)
    /\ call.params = <<Param(1), Param(1)>>
    /\ Cardinality(Added) = 2

=============================================================================
